---------------------------- MODULE Spec2Model ----------------------------
(***************************************************************************)
(* Model of the analysis pipeline of src/main.py: the POST /api/analyze    *)
(* handler analyze_text, the readability heuristics analyze_readability    *)
(* and the score aggregator calculate_scores.                              *)
(*                                                                         *)
(* One request is followed from its arrival to its answer.  The request    *)
(* text and the behaviour of the remote grammar service are the inputs.    *)
(***************************************************************************)
EXTENDS Integers, Sequences, FiniteSets, TLC

(***************************************************************************)
(* Bounds of the explored input space.                                     *)
(***************************************************************************)
\* longest request text, in tokens (see Alphabet)
MaxLen == 3
\* longest list of independently chosen matches in a service body
MaxMatches == 2
\* longest list made of one match repeated
MaxRepeat == 6

(***************************************************************************)
(* TEXT.  A text is a sequence of tokens.  " ", "\n" and "." are single    *)
(* characters; a token "wN" is a run of N one-letter words joined by       *)
(* single spaces ("x x x ... x"), so that texts with more than 25 or 150   *)
(* words stay short.  Two adjacent runs concatenate as strings do: the     *)
(* last word of the first and the first word of the second become one.     *)
(***************************************************************************)
SP == " "
NL == "\n"
DOT == "."

Whitespace == {SP, NL}

WordRuns == {"w1", "w15", "w20", "w25", "w26", "w151"}

Alphabet == WordRuns \cup {SP, NL, DOT}

\* number of words of a run token
RunWords(tok) ==
    CASE tok = "w1" -> 1
      [] tok = "w15" -> 15
      [] tok = "w20" -> 20
      [] tok = "w25" -> 25
      [] tok = "w26" -> 26
      [] tok = "w151" -> 151

\* len(token): N letters and N - 1 spaces for a run, 1 for a character
TokenLen(tok) == IF tok \in WordRuns THEN 2 * RunWords(tok) - 1 ELSE 1

RECURSIVE StrLen(_)
\* len(text)
StrLen(s) == IF s = <<>> THEN 0 ELSE TokenLen(Head(s)) + StrLen(Tail(s))

RECURSIVE LStrip(_)
LStrip(s) == IF s # <<>> /\ Head(s) \in Whitespace THEN LStrip(Tail(s)) ELSE s

RECURSIVE RStrip(_)
RStrip(s) ==
    IF s # <<>> /\ s[Len(s)] \in Whitespace
    THEN RStrip(SubSeq(s, 1, Len(s) - 1))
    ELSE s

\* str.strip()
Strip(s) == RStrip(LStrip(s))

RECURSIVE SplitFrom(_, _, _, _)
SplitFrom(s, sep, i, cur) ==
    IF i > Len(s) THEN <<cur>>
    ELSE IF i + Len(sep) - 1 <= Len(s) /\ SubSeq(s, i, i + Len(sep) - 1) = sep
         THEN <<cur>> \o SplitFrom(s, sep, i + Len(sep), <<>>)
         ELSE SplitFrom(s, sep, i + 1, Append(cur, s[i]))

\* str.split(sep): the pieces between the non-overlapping occurrences of sep,
\* found left to right, empty pieces kept
SplitOn(s, sep) == SplitFrom(s, sep, 1, <<>>)

RECURSIVE CountWords(_, _, _)
CountWords(s, i, inWord) ==
    IF i > Len(s) THEN 0
    ELSE IF s[i] \in Whitespace THEN CountWords(s, i + 1, FALSE)
    ELSE (IF s[i] \in WordRuns
          THEN RunWords(s[i]) - (IF inWord THEN 1 ELSE 0)
          ELSE (IF inWord THEN 0 ELSE 1))
         + CountWords(s, i + 1, TRUE)

\* len(str.split()): the number of maximal runs of non-whitespace characters
WordCount(s) == CountWords(s, 1, FALSE)

RECURSIVE StripNonEmpty(_)
\* [p.strip() for p in pieces if p.strip()]
StripNonEmpty(pieces) ==
    IF pieces = <<>> THEN <<>>
    ELSE (IF Strip(Head(pieces)) # <<>> THEN <<Strip(Head(pieces))>> ELSE <<>>)
         \o StripNonEmpty(Tail(pieces))

\* sentences = [s.strip() for s in text.split('.') if s.strip()]
Sentences(text) == StripNonEmpty(SplitOn(text, <<DOT>>))

\* paragraphs = [p.strip() for p in text.split('\n\n') if p.strip()]
Paragraphs(text) == StripNonEmpty(SplitOn(text, <<NL, NL>>))

\* mutant: the test without strip(), not request.text alone
IsBlank_NoStrip(text) == text = <<>>

\* not request.text or len(request.text.strip()) == 0
IsBlank(text) == text = <<>> \/ Len(Strip(text)) = 0


(***************************************************************************)
(* JSON values of the service body.  A field of an object is absent, null  *)
(* or holds a value; dict.get(key, default) yields the default only when   *)
(* the key is absent.                                                      *)
(***************************************************************************)
AbsentStr == [t |-> "absent", s |-> ""]
NullStr == [t |-> "null", s |-> ""]
JStr(x) == [t |-> "str", s |-> x]

AbsentInt == [t |-> "absent", n |-> 0]
NullInt == [t |-> "null", n |-> 0]
JInt(x) == [t |-> "int", n |-> x]

\* rule.category: absent, null, or an object with (possibly absent) id and name
AbsentCategory == [t |-> "absent", id |-> AbsentStr, name |-> AbsentStr]
NullCategory == [t |-> "null", id |-> AbsentStr, name |-> AbsentStr]
Category(id, name) == [t |-> "obj", id |-> id, name |-> name]

\* match.rule: absent, null, or an object holding a category
AbsentRule == [t |-> "absent", category |-> AbsentCategory]
NullRule == [t |-> "null", category |-> AbsentCategory]
Rule(category) == [t |-> "obj", category |-> category]

Match(rule, offset, length, message) ==
    [rule |-> rule, offset |-> offset, length |-> length, message |-> message]

\* dict.get(key, default) on a field
Get(field, default) == IF field.t = "absent" THEN default ELSE field

(***************************************************************************)
(* Suggestions.                                                            *)
(***************************************************************************)
MakeSuggestion(id, type, text, start, end, severity, category) ==
    [id |-> id, type |-> type, text |-> text,
     position |-> [start |-> start, end |-> end],
     severity |-> severity, category |-> category]

\* the rule category of a match, as lines 103-104 read it; {} stands for absent
RuleOf(match) == match.rule
CategoryOf(match) ==
    IF RuleOf(match).t = "absent" THEN AbsentCategory ELSE RuleOf(match).category

\* rule.get / category.get on None raise AttributeError; None + int and
\* int + None raise TypeError
MatchRaises(match) ==
    \/ RuleOf(match).t = "null"
    \/ CategoryOf(match).t = "null"
    \/ Get(match.offset, JInt(0)).t # "int"
    \/ Get(match.length, JInt(0)).t # "int"

\* severity by rule category id
SeverityOf(category) ==
    IF category.id = JStr("TYPOS") THEN "high"
    ELSE IF category.id = JStr("GRAMMAR") THEN "high"
    ELSE IF category.id = JStr("STYLE") THEN "low"
    ELSE "medium"

\* the dictionary appended for a match that does not raise
GrammarSuggestion(match, suggestion_id) ==
    MakeSuggestion(
        suggestion_id,
        "grammar",
        Get(match.message, JStr("Grammar issue found")),
        Get(match.offset, JInt(0)).n,
        Get(match.offset, JInt(0)).n + Get(match.length, JInt(0)).n,
        SeverityOf(CategoryOf(match)),
        Get(CategoryOf(match).name, JStr("Grammar")))

\* the fallback appended by the except clause
FallbackSuggestion(suggestion_id) ==
    MakeSuggestion(suggestion_id, "info",
                   JStr("Grammar check temporarily unavailable"),
                   0, 0, "low", JStr("System"))

\* pydantic: Suggestion.text and Suggestion.category are str; None is rejected
ValidSuggestion(s) == s.text.t = "str" /\ s.category.t = "str"

(***************************************************************************)
(* analyze_readability                                                     *)
(***************************************************************************)
HasLongSentence(text) ==
    \E i \in 1..Len(Sentences(text)) : WordCount(Sentences(text)[i]) > 25

HasLongParagraph(text) ==
    \E i \in 1..Len(Paragraphs(text)) : WordCount(Paragraphs(text)[i]) > 150

analyze_readability(text, start_id) ==
    LET first ==
            IF HasLongSentence(text)
            THEN <<MakeSuggestion(
                     start_id, "readability",
                     JStr("Consider breaking long sentences into shorter ones for better readability"),
                     0, StrLen(text), "medium", JStr("Readability"))>>
            ELSE <<>>
        current_id == start_id + Len(first)
        second ==
            IF HasLongParagraph(text)
            THEN <<MakeSuggestion(
                     current_id, "readability",
                     JStr("Consider breaking long paragraphs into smaller ones"),
                     0, StrLen(text), "low", JStr("Readability"))>>
            ELSE <<>>
    IN  first \o second

(***************************************************************************)
(* calculate_scores                                                        *)
(***************************************************************************)
tone_score == 85
plagiarism_score == 95

Max(a, b) == IF a >= b THEN a ELSE b

\* len([s for s in suggestions if type == "grammar" and severity == "high"])
GrammarErrors(suggestions) ==
    Cardinality({i \in 1..Len(suggestions) :
                    /\ suggestions[i].type = "grammar"
                    /\ suggestions[i].severity = "high"})

\* mutant: the score without its lower limit
GrammarScore_NoFloor(suggestions) == 100 - GrammarErrors(suggestions) * 8

GrammarScore(suggestions) == Max(60, 100 - GrammarErrors(suggestions) * 8)

\* mutant: the thresholds compared with < instead of <=
AvgAtMost_Strict(word_count, sentence_count, k) == word_count < k * sentence_count

\* avg_sentence_length = word_count / sentence_count is a quotient of two
\* integers below 2^53; avg <= k is decided exactly as word_count <= k * count
AvgAtMost(word_count, sentence_count, k) == word_count <= k * sentence_count

ReadabilityScore(text) ==
    LET word_count == WordCount(text)
        sentence_count == Len(Sentences(text))
    IN  IF sentence_count > 0
        THEN IF AvgAtMost(word_count, sentence_count, 15) THEN 95
             ELSE IF AvgAtMost(word_count, sentence_count, 20) THEN 85
             ELSE IF AvgAtMost(word_count, sentence_count, 25) THEN 75
             ELSE 65
        ELSE 50

\* mutant: the mean rounded to the nearest integer instead of truncated
Overall_Rounded(grammar_score, readability) ==
    (grammar_score + readability + tone_score + plagiarism_score + 2) \div 4

\* int(x / 4) for a sum x >= 0 of four integers: the quotient truncated
Overall(grammar_score, readability) ==
    (grammar_score + readability + tone_score + plagiarism_score) \div 4

calculate_scores(text, suggestions) ==
    [grammar |-> GrammarScore(suggestions),
     readability |-> ReadabilityScore(text),
     tone |-> tone_score,
     plagiarism |-> plagiarism_score,
     overall |-> Overall(GrammarScore(suggestions), ReadabilityScore(text))]

\* the scores returned for an empty or whitespace-only text
ZeroScores ==
    [grammar |-> 0, readability |-> 0, tone |-> 0, plagiarism |-> 0, overall |-> 0]

(***************************************************************************)
(* The remote grammar service, as the handler sees it: the call raises     *)
(* (network error, timeout), or it returns a response with a status code   *)
(* and a body that is unparsable or a JSON object whose "matches" key is   *)
(* absent, null or a list of matches.                                      *)
(***************************************************************************)
Outcome(kind, status_code, body, matches_key, matches) ==
    [kind |-> kind, status_code |-> status_code, body |-> body,
     matches_key |-> matches_key, matches |-> matches]

NetworkError == Outcome("network_error", 0, "none", "absent", <<>>)
Timeout == Outcome("timeout", 0, "none", "absent", <<>>)
Status(code) == Outcome("response", code, "none", "absent", <<>>)
Unparsable == Outcome("response", 200, "unparsable", "absent", <<>>)
OkNoMatchesKey == Outcome("response", 200, "object", "absent", <<>>)
OkNullMatches == Outcome("response", 200, "object", "null", <<>>)
Ok(matches) == Outcome("response", 200, "object", "list", matches)

\* mutant: a status other than 200 raises, as response.raise_for_status() would
CallBranch_RaiseForStatus(svc) ==
    IF svc.kind # "response" THEN "except"
    ELSE IF svc.status_code # 200 THEN "except"
    ELSE IF svc.body # "object" THEN "except"
    ELSE IF svc.matches_key = "null" THEN "except"
    ELSE "loop"

\* what the call block of lines 88-128 does with an outcome: "except" when
\* something raises before the loop, "skip" for a status other than 200,
\* "loop" when the matches are iterated
CallBranch(svc) ==
    IF svc.kind # "response" THEN "except"
    ELSE IF svc.status_code # 200 THEN "skip"
    ELSE IF svc.body # "object" THEN "except"
    ELSE IF svc.matches_key = "null" THEN "except"
    ELSE "loop"

\* data.get("matches", [])
MatchesOf(svc) == IF svc.matches_key = "list" THEN svc.matches ELSE <<>>

(***************************************************************************)
(* Inputs.                                                                 *)
(***************************************************************************)
BaseMatch ==
    Match(Rule(Category(JStr("TYPOS"), JStr("Possible Typo"))),
          JInt(5), JInt(3), JStr("Possible spelling mistake found."))

Rules ==
    {Rule(Category(JStr("TYPOS"), JStr("Possible Typo"))),
     Rule(Category(JStr("GRAMMAR"), JStr("Grammar"))),
     Rule(Category(JStr("STYLE"), JStr("Style"))),
     Rule(Category(JStr("CASING"), JStr("Capitalization"))),
     Rule(Category(AbsentStr, AbsentStr)),
     Rule(Category(JStr("TYPOS"), NullStr)),
     Rule(AbsentCategory),
     Rule(NullCategory),
     AbsentRule,
     NullRule}

Offsets == {JInt(5), JInt(0), JInt(-1), AbsentInt, NullInt}
Lengths == {JInt(3), JInt(-2), AbsentInt, NullInt}
Messages == {JStr("Possible spelling mistake found."), AbsentStr, NullStr}

\* the matches that differ from BaseMatch in at most one field
MatchSet ==
    {Match(r, BaseMatch.offset, BaseMatch.length, BaseMatch.message) : r \in Rules}
    \cup {Match(BaseMatch.rule, o, BaseMatch.length, BaseMatch.message) : o \in Offsets}
    \cup {Match(BaseMatch.rule, BaseMatch.offset, l, BaseMatch.message) : l \in Lengths}
    \cup {Match(BaseMatch.rule, BaseMatch.offset, BaseMatch.length, m) : m \in Messages}

Repeat(m, n) == [i \in 1..n |-> m]

MatchLists ==
    UNION {[1..n -> MatchSet] : n \in 0..MaxMatches}
    \cup {Repeat(m, n) : m \in MatchSet, n \in 1..MaxRepeat}

Outcomes ==
    {NetworkError, Timeout, Status(500), Status(429), Unparsable,
     OkNoMatchesKey, OkNullMatches}
    \cup {Ok(ms) : ms \in MatchLists}

BasicOutcomes ==
    {NetworkError, Timeout, Unparsable, Status(500), Ok(<<>>),
     Ok(Repeat(BaseMatch, MaxRepeat)),
     Ok(<<BaseMatch, Match(BaseMatch.rule, NullInt, BaseMatch.length, BaseMatch.message)>>),
     Ok(<<Match(BaseMatch.rule, BaseMatch.offset, BaseMatch.length, NullStr)>>)}

Texts == UNION {[1..n -> Alphabet] : n \in 0..MaxLen}

BasicTexts == {<<"w1">>, <<"w26">>, <<"w151">>}

\* every text with the basic outcomes, and every outcome with the basic texts
Requests == (Texts \X BasicOutcomes) \cup (BasicTexts \X Outcomes)

(***************************************************************************)
(* State of one request.                                                   *)
(***************************************************************************)
VARIABLES
    text,           \* request.text
    service,        \* what the grammar service does for this request
    pc,             \* position in analyze_text
    suggestions,    \* the local list suggestions
    suggestion_id,  \* the local counter suggestion_id
    matches,        \* data.get("matches", []) being iterated
    idx,            \* position of the for loop in matches (1-based)
    scores,         \* the local scores
    status,         \* HTTP status of the answer, 0 while there is none
    response,       \* the AnalysisResponse answered with status 200
    calls,          \* number of requests sent to the grammar service
    ran,            \* the helper functions called so far
    raised          \* whether the except clause of line 130 ran

vars == <<text, service, pc, suggestions, suggestion_id, matches, idx, scores,
          status, response, calls, ran, raised>>

NoResponse == [suggestions |-> <<>>, scores |-> ZeroScores]

Init ==
    /\ \E r \in Requests : text = r[1] /\ service = r[2]
    /\ pc = "start"
    /\ suggestions = <<>>
    /\ suggestion_id = 1
    /\ matches = <<>>
    /\ idx = 1
    /\ scores = ZeroScores
    /\ status = 0
    /\ response = NoResponse
    /\ calls = 0
    /\ ran = {}
    /\ raised = FALSE

\* lines 74-84: empty or whitespace-only text is answered at once
ReturnBlank ==
    /\ pc = "start"
    /\ IsBlank(text)
    /\ response' = [suggestions |-> <<>>, scores |-> ZeroScores]
    /\ status' = 200
    /\ pc' = "done"
    /\ UNCHANGED <<text, service, suggestions, suggestion_id, matches, idx,
                   scores, calls, ran, raised>>

\* line 74, condition false
Validate ==
    /\ pc = "start"
    /\ ~IsBlank(text)
    /\ pc' = "call"
    /\ UNCHANGED <<text, service, suggestions, suggestion_id, matches, idx,
                   scores, status, response, calls, ran, raised>>

\* lines 88-102 and 127-128: the POST, the status test, response.json() and
\* data.get("matches", [])
CallService ==
    /\ pc = "call"
    /\ calls' = calls + 1
    /\ pc' = CASE CallBranch(service) = "except" -> "except"
               [] CallBranch(service) = "skip" -> "readability"
               [] CallBranch(service) = "loop" -> "loop"
    /\ matches' = IF CallBranch(service) = "loop" THEN MatchesOf(service) ELSE matches
    /\ idx' = 1
    /\ UNCHANGED <<text, service, suggestions, suggestion_id, scores, status,
                   response, ran, raised>>

\* mutant: the new suggestion is inserted at the front of the list
ProcessMatch_Prepend ==
    /\ pc = "loop"
    /\ idx <= Len(matches)
    /\ IF MatchRaises(matches[idx])
       THEN /\ pc' = "except"
            /\ UNCHANGED <<suggestions, suggestion_id, idx>>
       ELSE /\ suggestions' =
                   <<GrammarSuggestion(matches[idx], suggestion_id)>> \o suggestions
            /\ suggestion_id' = suggestion_id + 1
            /\ idx' = idx + 1
            /\ pc' = "loop"
    /\ UNCHANGED <<text, service, matches, scores, status, response, calls, ran,
                   raised>>

\* lines 102-126: one iteration of the for loop
ProcessMatch ==
    /\ pc = "loop"
    /\ idx <= Len(matches)
    /\ IF MatchRaises(matches[idx])
       THEN /\ pc' = "except"
            /\ UNCHANGED <<suggestions, suggestion_id, idx>>
       ELSE /\ suggestions' =
                   Append(suggestions, GrammarSuggestion(matches[idx], suggestion_id))
            /\ suggestion_id' = suggestion_id + 1
            /\ idx' = idx + 1
            /\ pc' = "loop"
    /\ UNCHANGED <<text, service, matches, scores, status, response, calls, ran,
                   raised>>

\* line 102: the list is exhausted
LoopEnd ==
    /\ pc = "loop"
    /\ idx > Len(matches)
    /\ pc' = "readability"
    /\ UNCHANGED <<text, service, suggestions, suggestion_id, matches, idx,
                   scores, status, response, calls, ran, raised>>

\* lines 130-140: the except clause appends the fallback suggestion and leaves
\* suggestion_id as it is
HandleException ==
    /\ pc = "except"
    /\ suggestions' = Append(suggestions, FallbackSuggestion(suggestion_id))
    /\ raised' = TRUE
    /\ pc' = "readability"
    /\ UNCHANGED <<text, service, suggestion_id, matches, idx, scores, status,
                   response, calls, ran>>

\* lines 143-144
Readability ==
    /\ pc = "readability"
    /\ suggestions' = suggestions \o analyze_readability(text, suggestion_id)
    /\ ran' = ran \cup {"analyze_readability"}
    /\ pc' = "scores"
    /\ UNCHANGED <<text, service, suggestion_id, matches, idx, scores, status,
                   response, calls, raised>>

\* line 147
Scores ==
    /\ pc = "scores"
    /\ scores' = calculate_scores(text, suggestions)
    /\ ran' = ran \cup {"calculate_scores"}
    /\ pc' = "respond"
    /\ UNCHANGED <<text, service, suggestions, suggestion_id, matches, idx,
                   status, response, calls, raised>>

\* line 151: every suggestion passes the validation of the Suggestion model
Respond ==
    /\ pc = "respond"
    /\ \A i \in 1..Len(suggestions) : ValidSuggestion(suggestions[i])
    /\ response' = [suggestions |-> suggestions, scores |-> scores]
    /\ status' = 200
    /\ pc' = "done"
    /\ UNCHANGED <<text, service, suggestions, suggestion_id, matches, idx,
                   scores, calls, ran, raised>>

\* lines 151-155: the validation error is caught by the outer except clause,
\* which raises HTTPException(500)
RespondError ==
    /\ pc = "respond"
    /\ \E i \in 1..Len(suggestions) : ~ValidSuggestion(suggestions[i])
    /\ status' = 500
    /\ pc' = "done"
    /\ UNCHANGED <<text, service, suggestions, suggestion_id, matches, idx,
                   scores, response, calls, ran, raised>>

Next ==
    \/ ReturnBlank
    \/ Validate
    \/ CallService
    \/ ProcessMatch
    \/ LoopEnd
    \/ HandleException
    \/ Readability
    \/ Scores
    \/ Respond
    \/ RespondError

Spec == Init /\ [][Next]_vars

(***************************************************************************)
(* Vocabulary of the properties, stated on the text and the answer alone.  *)
(***************************************************************************)
Done == pc = "done"
Answered == pc = "done" /\ status = 200

\* the text is empty or made of whitespace characters only
OnlyWhitespace(t) == \A i \in 1..Len(t) : t[i] \in {" ", "\n"}

\* the number of suggestions of a type in a list
CountType(list, type) == Cardinality({i \in 1..Len(list) : list[i].type = type})

\* the number of whitespace-delimited tokens of a text: every token that
\* starts a word, and the further words inside each run
WordTokens(t) ==
    Cardinality({i \in 1..Len(t) :
                    /\ ~(t[i] \in {" ", "\n"})
                    /\ (i = 1 \/ t[i - 1] \in {" ", "\n"})})
    + Cardinality({i \in 1..Len(t) : t[i] = "w15"}) * 14
    + Cardinality({i \in 1..Len(t) : t[i] = "w20"}) * 19
    + Cardinality({i \in 1..Len(t) : t[i] = "w25"}) * 24
    + Cardinality({i \in 1..Len(t) : t[i] = "w26"}) * 25
    + Cardinality({i \in 1..Len(t) : t[i] = "w151"}) * 150

\* the number of "."-delimited segments that hold a non-whitespace character:
\* the positions of the first such character of a segment
SentenceSegments(t) ==
    Cardinality({i \in 1..Len(t) :
                    /\ ~(t[i] \in {" ", "\n", "."})
                    /\ \A j \in 1..(i - 1) :
                          \/ t[j] \in {" ", "\n"}
                          \/ \E k \in j..(i - 1) : t[k] = "."})

\* the service answered 200 with a JSON object whose matches are a list
ServiceGaveList ==
    /\ service.kind = "response"
    /\ service.status_code = 200
    /\ service.body = "object"
    /\ service.matches_key = "list"

\* every field of the match is absent or of the documented type
WellFormedMatch(m) ==
    /\ m.rule.t # "null"
    /\ m.rule.category.t # "null"
    /\ m.rule.category.name.t # "null"
    /\ m.offset.t # "null"
    /\ m.length.t # "null"
    /\ m.message.t # "null"

IntOr0(field) == IF field.t = "int" THEN field.n ELSE 0

(***************************************************************************)
(* C1.                                                                     *)
(***************************************************************************)
\* C1: in every answer the suggestion ids are 1, 2, ..., k in list order
\* (hence pairwise distinct), whatever the grammar service did.
C1_IdsSequential ==
    Answered =>
        \A i \in 1..Len(response.suggestions) : response.suggestions[i].id = i

(***************************************************************************)
(* C2.                                                                     *)
(***************************************************************************)
\* C2: for a text that is not blank, when an exception was raised in the
\* grammar-service call block, the answer holds exactly one "info"
\* suggestion and no "grammar" suggestion.
C2_ExceptionGivesOnlyInfo ==
    (Answered /\ ~OnlyWhitespace(text) /\ raised) =>
        /\ CountType(response.suggestions, "info") = 1
        /\ CountType(response.suggestions, "grammar") = 0

(***************************************************************************)
(* C3.                                                                     *)
(***************************************************************************)
\* C3: for a text that is not blank, whatever the grammar service does or
\* returns, the request is answered with status 200 and never with the 500
\* error payload.
C3_NeverFails == (Done /\ ~OnlyWhitespace(text)) => status = 200

(***************************************************************************)
(* C4.                                                                     *)
(***************************************************************************)
\* C4: for an empty or whitespace-only text no request is ever sent to the
\* grammar service, analyze_readability and calculate_scores are never run,
\* and the answer is suggestions = [] with all five scores 0.
C4_BlankText ==
    OnlyWhitespace(text) =>
        /\ calls = 0
        /\ ran = {}
        /\ Done => /\ status = 200
                   /\ response.suggestions = <<>>
                   /\ response.scores.grammar = 0
                   /\ response.scores.readability = 0
                   /\ response.scores.tone = 0
                   /\ response.scores.plagiarism = 0
                   /\ response.scores.overall = 0

\* a whitespace-only text that is not empty has been answered
C4_Witness == Done /\ text # <<>> /\ OnlyWhitespace(text)

(***************************************************************************)
(* C5.                                                                     *)
(***************************************************************************)
\* C5: every suggestion of every answer has start >= 0 and end >= start.
C5_SpansOrdered ==
    Answered =>
        \A i \in 1..Len(response.suggestions) :
            /\ response.suggestions[i].position.start >= 0
            /\ response.suggestions[i].position.end
                   >= response.suggestions[i].position.start

(***************************************************************************)
(* C6.                                                                     *)
(***************************************************************************)
\* C6 as stated: in every answer, blank texts included, the grammar score is
\* in [60,100] and the other four scores are in [0,100].
C6_ScoreRangesAllTexts ==
    Answered =>
        /\ response.scores.grammar \in 60..100
        /\ response.scores.readability \in 0..100
        /\ response.scores.tone \in 0..100
        /\ response.scores.plagiarism \in 0..100
        /\ response.scores.overall \in 0..100

\* C6 amended: the grammar score is in [60,100] for every text that is not
\* blank and is 0 for a blank text; the other four scores are in [0,100] for
\* every text.
C6_ScoreRanges ==
    Answered =>
        /\ IF OnlyWhitespace(text)
           THEN response.scores.grammar = 0
           ELSE response.scores.grammar \in 60..100
        /\ response.scores.readability \in 0..100
        /\ response.scores.tone \in 0..100
        /\ response.scores.plagiarism \in 0..100
        /\ response.scores.overall \in 0..100

\* an answer with more than five high-severity grammar suggestions, where
\* the lower limit of the grammar score decides
C6_Witness ==
    /\ Answered
    /\ Cardinality({i \in 1..Len(response.suggestions) :
                       /\ response.suggestions[i].type = "grammar"
                       /\ response.suggestions[i].severity = "high"}) > 5
    /\ response.scores.grammar = 60

(***************************************************************************)
(* C7.                                                                     *)
(***************************************************************************)
\* C7: for a text that is not blank, when the service answers 200 with a
\* list of N well-formed matches, the request is answered, the first N
\* suggestions are "grammar" suggestions built from the matches in their
\* order (start = offset, end - start = length, each defaulting to 0), and
\* every later suggestion is a "readability" suggestion; none is "info".
C7_GrammarPerMatch ==
    (Done /\ ~OnlyWhitespace(text) /\ ServiceGaveList
          /\ \A i \in 1..Len(service.matches) : WellFormedMatch(service.matches[i]))
    =>
        /\ status = 200
        /\ Len(response.suggestions) >= Len(service.matches)
        /\ CountType(response.suggestions, "grammar") = Len(service.matches)
        /\ CountType(response.suggestions, "info") = 0
        /\ \A i \in 1..Len(response.suggestions) :
              IF i <= Len(service.matches)
              THEN /\ response.suggestions[i].type = "grammar"
                   /\ response.suggestions[i].position.start
                          = IntOr0(service.matches[i].offset)
                   /\ response.suggestions[i].position.end
                          - response.suggestions[i].position.start
                          = IntOr0(service.matches[i].length)
              ELSE response.suggestions[i].type = "readability"

\* two different well-formed matches were answered, followed by a
\* readability suggestion
C7_Witness ==
    /\ Answered
    /\ ServiceGaveList
    /\ Len(service.matches) = 2
    /\ \A i \in 1..2 : WellFormedMatch(service.matches[i])
    /\ IntOr0(service.matches[1].offset) # IntOr0(service.matches[2].offset)
    /\ Len(response.suggestions) > 2

(***************************************************************************)
(* C8.                                                                     *)
(***************************************************************************)
\* the answer that holds the readability findings of the text only
FindingsOfTextOnly(t) ==
    [suggestions |-> analyze_readability(t, 1),
     scores |-> calculate_scores(t, analyze_readability(t, 1))]

\* C8: for a text that is not blank, a status other than 200 adds no
\* fallback suggestion: the answer is the one given when the service answers
\* 200 with an empty list of matches, that is, the readability findings of
\* the text only, with no "info" and no "grammar" suggestion.
C8_Non200AddsNothing ==
    (Done /\ ~OnlyWhitespace(text)
          /\ \/ service.kind = "response" /\ service.status_code # 200
             \/ ServiceGaveList /\ service.matches = <<>>)
    =>
        /\ status = 200
        /\ ~raised
        /\ response = FindingsOfTextOnly(text)
        /\ CountType(response.suggestions, "info") = 0
        /\ CountType(response.suggestions, "grammar") = 0

\* a request whose grammar-service call returned a status other than 200 was
\* answered, with readability findings
C8_Witness ==
    /\ Answered
    /\ service.kind = "response"
    /\ service.status_code # 200
    /\ calls = 1
    /\ Len(response.suggestions) > 0

(***************************************************************************)
(* C9.                                                                     *)
(***************************************************************************)
\* C9: in every answer, overall is the sum of the grammar, readability, tone
\* and plagiarism scores of that answer divided by 4 and truncated toward
\* zero: 4 * overall <= sum < 4 * overall + 4 (the sum is never negative).
C9_OverallIsTruncatedMean ==
    Answered =>
        LET sum == response.scores.grammar + response.scores.readability
                   + response.scores.tone + response.scores.plagiarism
        IN  /\ sum >= 0
            /\ 4 * response.scores.overall <= sum
            /\ sum < 4 * response.scores.overall + 4

\* an answer whose four scores do not add up to a multiple of 4
C9_Witness ==
    /\ Answered
    /\ ~OnlyWhitespace(text)
    /\ (response.scores.grammar + response.scores.readability
        + response.scores.tone + response.scores.plagiarism) % 4 = 3

(***************************************************************************)
(* C10.                                                                    *)
(***************************************************************************)
\* C10: for a text that is not blank, with word_count the number of
\* whitespace-delimited tokens of the whole text and sentence_count the
\* number of non-empty trimmed "."-delimited segments, readability is 50
\* when sentence_count = 0, else 95, 85, 75 when word_count is at most 15,
\* 20, 25 times sentence_count, else 65, whatever the suggestions are.
C10_ReadabilityByAverage ==
    (Answered /\ ~OnlyWhitespace(text)) =>
        LET wc == WordTokens(text)
            sc == SentenceSegments(text)
        IN  response.scores.readability =
                IF sc = 0 THEN 50
                ELSE IF wc <= 15 * sc THEN 95
                ELSE IF wc <= 20 * sc THEN 85
                ELSE IF wc <= 25 * sc THEN 75
                ELSE 65

\* a long-sentence suggestion is present while readability is 95
C10_Witness ==
    /\ Answered
    /\ response.scores.readability = 95
    /\ \E i \in 1..Len(response.suggestions) :
          /\ response.suggestions[i].type = "readability"
          /\ response.suggestions[i].severity = "medium"

\* readability is 65 and there is no readability suggestion
C10_WitnessNoSuggestion ==
    /\ Answered
    /\ response.scores.readability = 65
    /\ CountType(response.suggestions, "readability") = 0

\* a text with words and no sentence: readability is 50
C10_WitnessNoSentence ==
    /\ Answered
    /\ ~OnlyWhitespace(text)
    /\ response.scores.readability = 50

=============================================================================
